---- MODULE Spec2Model ----
(***************************************************************************)
(* State-machine model of the profile image generator API                  *)
(* (src/profile_image_api.py): the on-disk variant store under OUTPUT_DIR,  *)
(* the ProfileImageGenerator methods and the Flask route handlers.          *)
(*                                                                         *)
(* Python str values that the code indexes, strips, formats or parses are   *)
(* sequences of one-character strings; messages and colours, which the code *)
(* only passes along, are TLA+ strings.  JSON values are tagged records     *)
(* whose payload field is named after the type (s, i, b, l) so that values  *)
(* of different types never meet in a comparison.                           *)
(***************************************************************************)
EXTENDS Integers, Sequences, FiniteSets, TLC

VARIABLES
    dirs,   \* names of the directories that exist under OUTPUT_DIR
    files,  \* <<directory, filename>> -> content, for every file under OUTPUT_DIR
    io,     \* the store accesses (makedirs, save) made by the last operation, in order
    req,    \* the last operation or request, with its inputs and the random outcomes it drew
    resp,   \* what it returned: the HTTP status and JSON body, or a method's outcome
    served, \* number of requests handled so far
    threads, \* the generator calls that run concurrently: per thread, the call,
            \* its position and its local variables (none while requests are
            \* handled one at a time)
    returned \* the urls the service has handed out in its success responses

vars == <<dirs, files, io, req, resp, served, threads, returned>>

-----------------------------------------------------------------------------
(* Bounds of the model *)

\* longest name (in characters) handed to extract_initials on its own
MaxNameLen == 2
\* number of different states of the random generator a request starts in; the
\* state decides what random.sample and random.choice return next
NumOutcomes == 2
\* largest valid num_variants a request carries, besides the limit 12 itself
MaxCount == 2
\* latest save (1-based) at which the environment makes img.save fail; 0 = never
MaxFailAt == 1
\* longest users array of a /bulk-generate request
MaxUsers == 2
\* number of requests a behaviour handles
MaxRequests == 2

\* the calls that run concurrently
NumThreads == 2

-----------------------------------------------------------------------------
(* Python str helpers *)

\* "U+00DF" stands for the one character LATIN SMALL LETTER SHARP S
Chars == {"a", "A", "b", " ", "U+00DF"}

IsSpace(c) == c = " "

\* str.upper() of a one-character string: full Unicode case mapping, which
\* maps U+00DF to the two characters "SS"
Upper(c) ==
    CASE c = "a" -> <<"A">>
      [] c = "b" -> <<"B">>
      [] c = "U+00DF" -> <<"S", "S">>
      [] OTHER -> <<c>>

IsUpperChar(c) == c \in {"A", "B", "S"}

RECURSIVE LStrip(_)
LStrip(s) == IF s # <<>> /\ IsSpace(Head(s)) THEN LStrip(Tail(s)) ELSE s

RECURSIVE RStrip(_)
RStrip(s) ==
    IF s # <<>> /\ IsSpace(s[Len(s)]) THEN RStrip(SubSeq(s, 1, Len(s) - 1)) ELSE s

\* str.strip()
Strip(s) == RStrip(LStrip(s))

RECURSIVE SeqsUpTo(_, _)
SeqsUpTo(S, n) ==
    IF n = 0 THEN {<<>>}
    ELSE LET shorter == SeqsUpTo(S, n - 1)
         IN  shorter \cup {Append(s, c) : s \in shorter, c \in S}

Names == SeqsUpTo(Chars, MaxNameLen)

-----------------------------------------------------------------------------
(* Outcomes of a Python call *)

Return(v) == [raised |-> FALSE, value |-> v]
Raise(exc, msg) == [raised |-> TRUE, exc |-> exc, msg |-> msg]

BothRequired == "Both first_name and last_name are required"

-----------------------------------------------------------------------------
(* ProfileImageGenerator.extract_initials *)

extract_initials(first_name, last_name) ==
    IF first_name = <<>> \/ last_name = <<>>
    THEN Raise("ValueError", BothRequired)
    ELSE IF Strip(first_name) = <<>> \/ Strip(last_name) = <<>>
    THEN Raise("IndexError", "string index out of range")
    ELSE Return(Upper(Head(Strip(first_name))) \o Upper(Head(Strip(last_name))))

-----------------------------------------------------------------------------
(* Configuration (module level) *)

OUTPUT_DIR == "generated_images"

BACKGROUND_COLORS ==
    << "#FF9933", "#FFD700", "#A569BD", "#1ABC9C", "#2C3E50", "#E74C3C",
       "#F39C12", "#27AE60", "#8E44AD", "#D35400", "#2980B9", "#C0392B" >>

\* default of generate_variants' num_variants parameter
DEFAULT_VARIANTS == 3

\* largest num_variants the /generate-variants handler accepts
MAX_VARIANTS == 12

-----------------------------------------------------------------------------
(* Formatting and parsing of file names *)

DigitChars == <<"0", "1", "2", "3", "4", "5", "6", "7", "8", "9">>

IsDigit(c) == \E d \in 1..10 : DigitChars[d] = c

DigitVal(c) == (CHOOSE d \in 1..10 : DigitChars[d] = c) - 1

\* str(n) for n >= 0, as f"{variant}" formats it
RECURSIVE IntToStr(_)
IntToStr(n) ==
    IF n < 10 THEN <<DigitChars[n + 1]>>
    ELSE Append(IntToStr(n \div 10), DigitChars[(n % 10) + 1])

RECURSIVE DigitsValue(_, _)
DigitsValue(s, acc) ==
    IF s = <<>> THEN acc ELSE DigitsValue(Tail(s), 10 * acc + DigitVal(Head(s)))

\* int(s): the value of a decimal numeral, ValueError otherwise
ParseInt(s) ==
    IF s # <<>> /\ \A k \in 1..Len(s) : IsDigit(s[k])
    THEN Return(DigitsValue(s, 0))
    ELSE Raise("ValueError", "invalid literal for int() with base 10")

StartsWith(s, p) == Len(s) >= Len(p) /\ SubSeq(s, 1, Len(p)) = p

EndsWith(s, p) == Len(s) >= Len(p) /\ SubSeq(s, Len(s) - Len(p) + 1, Len(s)) = p

\* str.split(sep): the list of the parts of s between occurrences of sep
RECURSIVE SplitAcc(_, _, _)
SplitAcc(s, sep, cur) ==
    IF s = <<>> THEN <<cur>>
    ELSE IF StartsWith(s, sep)
    THEN <<cur>> \o SplitAcc(SubSeq(s, Len(sep) + 1, Len(s)), sep, <<>>)
    ELSE SplitAcc(Tail(s), sep, Append(cur, Head(s)))

Split(s, sep) == SplitAcc(s, sep, <<>>)

VariantInfix == <<"_", "v", "a", "r", "i", "a", "n", "t">>

PngSuffix == <<".", "p", "n", "g">>

\* numbering the files from 0
VariantFilename_from_zero(initials, variant) ==
    initials \o VariantInfix \o IntToStr(variant - 1) \o PngSuffix

\* f"{initials}_variant{variant}.png"
VariantFilename(initials, variant) ==
    initials \o VariantInfix \o IntToStr(variant) \o PngSuffix

\* f"/image/{initials}/{filename}"
ImageUrl(initials, filename) ==
    <<"/", "i", "m", "a", "g", "e", "/">> \o initials \o <<"/">> \o filename

\* os.path.join(OUTPUT_DIR, initials, filename), as its components
JoinPath(initials, filename) == <<OUTPUT_DIR, initials, filename>>

-----------------------------------------------------------------------------
(* The store: the directory tree under OUTPUT_DIR *)

EmptyFiles == [p \in {} |-> 0]

Store(d, f, log) == [dirs |-> d, files |-> f, io |-> log]

\* removing the directory tree before creating it anew
makedirs_afresh(st, dir) ==
    [st EXCEPT !.dirs = @ \cup {dir},
               !.files = [p \in {q \in DOMAIN st.files : q[1] # dir} |-> st.files[p]],
               !.io = Append(@, [op |-> "makedirs", dir |-> dir,
                                created |-> dir \notin st.dirs])]

\* os.makedirs(initials_dir, exist_ok=True): creates the directory unless it exists
makedirs(st, dir) ==
    [st EXCEPT !.dirs = @ \cup {dir},
               !.io = Append(@, [op |-> "makedirs", dir |-> dir,
                                created |-> dir \notin st.dirs])]

\* opening the file for exclusive creation: an existing file keeps its content
save_unless_exists(st, dir, filename, img) ==
    [st EXCEPT !.files = @ @@ (<<dir, filename>> :> img),
               !.io = Append(@, [op |-> "save", dir |-> dir, name |-> filename])]

\* img.save(filepath): creates the file or replaces its content
save(st, dir, filename, img) ==
    [st EXCEPT !.files = (<<dir, filename>> :> img) @@ @,
               !.io = Append(@, [op |-> "save", dir |-> dir, name |-> filename])]

\* the names of the files in directory dir
FilesIn(fs, dir) == {p[2] : p \in {q \in DOMAIN fs : q[1] = dir}}

RECURSIVE SetToSeq(_)
SetToSeq(S) ==
    IF S = {} THEN <<>>
    ELSE LET x == CHOOSE y \in S : TRUE IN <<x>> \o SetToSeq(S \ {x})

\* os.listdir(dir): the names in some order
listdir(fs, dir) == SetToSeq(FilesIn(fs, dir))

-----------------------------------------------------------------------------
(* random *)

\* random.choices in place of random.sample: colours drawn with replacement
random_sample_with_replacement(sample, k) ==
    IF k < 0 \/ k > Len(BACKGROUND_COLORS)
    THEN Raise("ValueError", "Sample larger than population or is negative")
    ELSE Return([i \in 1..k |->
            BACKGROUND_COLORS[((((i - 1) % 2) + sample) % Len(BACKGROUND_COLORS)) + 1]])

\* random.sample(BACKGROUND_COLORS, k): k distinct colours in a random order;
\* outcome number `sample` is the palette rotated by `sample`, cut to k
random_sample(sample, k) ==
    IF k < 0 \/ k > Len(BACKGROUND_COLORS)
    THEN Raise("ValueError", "Sample larger than population or is negative")
    ELSE Return([i \in 1..k |->
            BACKGROUND_COLORS[((i - 1 + sample) % Len(BACKGROUND_COLORS)) + 1]])

\* random.choice(seq): the element at position floor(u * len(seq)) for a uniform
\* u in [0, 1), here u = draw / NumOutcomes
random_choice(seq, draw) == seq[((draw * Len(seq)) \div NumOutcomes) + 1]

\* what one call of get_random_variant or generate_variants draws: the position
\* random.choice selects, the outcome of random.sample, the save that fails
Rnds ==
    {[draw |-> o, sample |-> o, failAt |-> f] : o \in 0..(NumOutcomes - 1), f \in 0..MaxFailAt}

NoRnd == [draw |-> 0, sample |-> 0, failAt |-> 0]

\* the draws of the k-th call of one request: the generator's stream moves on
\* with every call; the environment fails a save in any one call
NthRnd(rnd, k) ==
    [draw |-> (rnd.draw + k - 1) % NumOutcomes,
     sample |-> (rnd.sample + k - 1) % NumOutcomes,
     failAt |-> rnd.failAt]

-----------------------------------------------------------------------------
(* ProfileImageGenerator: create_image, generate_variants, get_random_variant *)

\* the message of the OSError an img.save that the environment fails raises
SaveFailed == "[Errno 28] No space left on device"

\* the rendered image: the initials over the background colour (the variant
\* number is not drawn)
create_image(initials, variant, bg_color) == [text |-> initials, bg |-> bg_color]

Min(a, b) == IF a <= b THEN a ELSE b

\* a descriptor without the colour
NewVariant_without_color(initials, variant, bg_color) ==
    [variant |-> variant,
     filename |-> VariantFilename(initials, variant),
     filepath |-> JoinPath(initials, VariantFilename(initials, variant)),
     url |-> ImageUrl(initials, VariantFilename(initials, variant))]

\* one variant's descriptor, as generate_variants appends it
NewVariant(initials, variant, bg_color) ==
    [variant |-> variant,
     filename |-> VariantFilename(initials, variant),
     filepath |-> JoinPath(initials, VariantFilename(initials, variant)),
     bg_color |-> bg_color,
     url |-> ImageUrl(initials, VariantFilename(initials, variant))]

\* passing over the variants whose file exists already
RECURSIVE GenerateLoop_skip_existing(_, _, _, _, _, _, _)
GenerateLoop_skip_existing(st, initials, num_variants, colors, variant, variants, failAt) ==
    IF variant > num_variants
    THEN [st |-> st, out |-> Return(variants)]
    ELSE IF variant > Len(colors)
    THEN [st |-> st, out |-> Raise("IndexError", "list index out of range")]
    ELSE IF variant = failAt
    THEN [st |-> st, out |-> Raise("OSError", SaveFailed)]
    ELSE LET bg_color == colors[variant]
             img == create_image(initials, variant, bg_color)
             filename == VariantFilename(initials, variant)
             kept == <<initials, filename>> \in DOMAIN st.files
         IN  GenerateLoop_skip_existing(
                 IF kept THEN st ELSE save(st, initials, filename, img),
                 initials, num_variants, colors, variant + 1,
                 Append(variants, NewVariant(initials, variant, bg_color)), failAt)

\* the loop "for variant in range(1, num_variants + 1)"; the save number
\* failAt (if any) raises before it creates its file
RECURSIVE GenerateLoop(_, _, _, _, _, _, _)
GenerateLoop(st, initials, num_variants, colors, variant, variants, failAt) ==
    IF variant > num_variants
    THEN [st |-> st, out |-> Return(variants)]
    ELSE IF variant > Len(colors)
    THEN [st |-> st, out |-> Raise("IndexError", "list index out of range")]
    ELSE IF variant = failAt
    THEN [st |-> st, out |-> Raise("OSError", SaveFailed)]
    ELSE LET bg_color == colors[variant]
             img == create_image(initials, variant, bg_color)
             filename == VariantFilename(initials, variant)
         IN  GenerateLoop(save(st, initials, filename, img), initials, num_variants,
                          colors, variant + 1,
                          Append(variants, NewVariant(initials, variant, bg_color)),
                          failAt)

\* generate_variants(initials, num_variants) on store st, with the outcome of
\* random.sample and the save the environment fails (0: none)
generate_variants(st, initials, num_variants, sample, failAt) ==
    LET st1 == makedirs(st, initials)
        colors == random_sample(sample, Min(num_variants, Len(BACKGROUND_COLORS)))
    IN  IF colors.raised
        THEN [st |-> st1, out |-> colors]
        ELSE GenerateLoop(st1, initials, num_variants, colors.value, 1, <<>>, failAt)

\* [f for f in os.listdir(initials_dir) if f.endswith('.png')]
PngFiles(st, initials) ==
    SelectSeq(listdir(st.files, initials), LAMBDA f : EndsWith(f, PngSuffix))

\* generating one variant more than the default
GenerateAndChoose_one_more(st, initials, draw, sample, failAt) ==
    LET g == generate_variants(st, initials, DEFAULT_VARIANTS + 1, sample, failAt)
    IN  IF g.out.raised THEN g
        ELSE [st |-> g.st, out |-> Return(random_choice(g.out.value, draw))]

\* the branches of get_random_variant that generate the default variants and
\* return random.choice(variants)
GenerateAndChoose(st, initials, draw, sample, failAt) ==
    LET g == generate_variants(st, initials, DEFAULT_VARIANTS, sample, failAt)
    IN  IF g.out.raised THEN g
        ELSE [st |-> g.st, out |-> Return(random_choice(g.out.value, draw))]

\* taking the part before '_variant' for the variant number
ChooseExisting_part_before(st, initials, found, draw) ==
    LET random_file == random_choice(found, draw)
        number == ParseInt(Split(random_file, VariantInfix)[1])
    IN  IF number.raised
        THEN [st |-> st, out |-> number]
        ELSE [st |-> st,
              out |-> Return([variant |-> number.value,
                              filename |-> random_file,
                              filepath |-> JoinPath(initials, random_file),
                              url |-> ImageUrl(initials, random_file)])]

\* the branch of get_random_variant that returns a random existing variant
ChooseExisting(st, initials, found, draw) ==
    LET random_file == random_choice(found, draw)
        variant_num == Split(Split(random_file, VariantInfix)[2], <<".">>)[1]
        number == ParseInt(variant_num)
    IN  IF number.raised
        THEN [st |-> st, out |-> number]
        ELSE [st |-> st,
              out |-> Return([variant |-> number.value,
                              filename |-> random_file,
                              filepath |-> JoinPath(initials, random_file),
                              url |-> ImageUrl(initials, random_file)])]

\* generating afresh on every call, whatever the directory holds
get_random_variant_always_generate(st, initials, draw, sample, failAt) ==
    GenerateAndChoose(st, initials, draw, sample, failAt)

get_random_variant(st, initials, draw, sample, failAt) ==
    IF initials \notin st.dirs
    THEN GenerateAndChoose(st, initials, draw, sample, failAt)
    ELSE LET found == PngFiles(st, initials)
         IN  IF found = <<>>
             THEN GenerateAndChoose(st, initials, draw, sample, failAt)
             ELSE ChooseExisting(st, initials, found, draw)

-----------------------------------------------------------------------------
(* JSON values, as request.get_json() and jsonify see them *)

JStr(s) == [t |-> "str", s |-> s]
JInt(i) == [t |-> "int", i |-> i]
JBool(b) == [t |-> "bool", b |-> b]
JList(l) == [t |-> "list", l |-> l]
JNull == [t |-> "null"]
\* a JSON number with a fractional part, such as 2.5
JFloat == [t |-> "float"]
\* the value of a key the object does not have
Missing == [t |-> "missing"]

\* a JSON object, by the keys the handlers read
JBody(first_name, last_name, num_variants) ==
    [t |-> "obj", first_name |-> first_name, last_name |-> last_name,
     num_variants |-> num_variants]
JUser(first_name, last_name) ==
    [t |-> "obj", first_name |-> first_name, last_name |-> last_name]
JUsers(users) == [t |-> "obj", users |-> users]

\* a request body that is no JSON text (sent as application/json), and none at all
Malformed == [t |-> "malformed"]
Absent == [t |-> "absent"]

IsDict(v) == v.t = "obj"

HasKey(v, key) == key \in DOMAIN v /\ v[key] # Missing

\* Python truth value of a parsed JSON value ("if not data")
Truthy(v) ==
    CASE v.t = "str" -> v.s # <<>>
      [] v.t = "int" -> v.i # 0
      [] v.t = "bool" -> v.b
      [] v.t = "list" -> v.l # <<>>
      [] v.t = "float" -> TRUE
      [] v.t = "obj" -> \E key \in DOMAIN v \ {"t"} : v[key] # Missing
      [] OTHER -> FALSE

\* request.get_json(): the parsed value; werkzeug's BadRequest when the body is
\* not JSON text
get_json(body) ==
    IF body.t \in {"malformed", "absent"}
    THEN Raise("BadRequest", "400 Bad Request")
    ELSE Return(body)

\* dict.get(key, default)
DictGet(v, key, default) == IF HasKey(v, key) THEN v[key] ELSE default

\* value.strip(): only a str has it
StripValue(v) ==
    IF v.t = "str" THEN Return(Strip(v.s))
    ELSE Raise("AttributeError", "object has no attribute 'strip'")

\* data.get(key, '').strip(); a value that is no dict has no get
GetStripped(data, key) ==
    IF ~IsDict(data)
    THEN Raise("AttributeError", "object has no attribute 'get'")
    ELSE StripValue(DictGet(data, key, JStr(<<>>)))

\* isinstance(value, int): bool is a subclass of int in Python
IsInstanceInt(v) == v.t \in {"int", "bool"}

\* the number a Python int or bool is in a comparison or in range()
IntValue(v) == IF v.t = "bool" THEN (IF v.b THEN 1 ELSE 0) ELSE v.i

\* whether a JSON value is an object with two names that are non-empty after
\* stripping: only such a request or entry gets as far as the generator
ReachesStore(v) ==
    /\ IsDict(v)
    /\ ~GetStripped(v, "first_name").raised
    /\ ~GetStripped(v, "last_name").raised
    /\ GetStripped(v, "first_name").value # <<>>
    /\ GetStripped(v, "last_name").value # <<>>

-----------------------------------------------------------------------------
(* Responses *)

InternalError == "Internal server error"

Response(status, body) == [status |-> status, body |-> body]

ErrorResponse(status, msg) == Response(status, [error |-> msg])

Handled(st, response) == [st |-> st, resp |-> response]

\* the handlers' "except ValueError" (400, the message) and "except Exception"
\* (500, generic) for an exception raised inside their try block
Caught(st, out) ==
    IF out.exc = "ValueError"
    THEN Handled(st, ErrorResponse(400, out.msg))
    ELSE Handled(st, ErrorResponse(500, InternalError))

UserInfo(first_name, last_name, initials) ==
    [first_name |-> first_name, last_name |-> last_name, initials |-> initials]

-----------------------------------------------------------------------------
(* POST /generate *)

\* the handler from the point where first_name and last_name are stripped strings
GenerateForNames(st, first_name, last_name, draw, sample, failAt) ==
    IF first_name = <<>> \/ last_name = <<>>
    THEN Handled(st, ErrorResponse(400, BothRequired))
    ELSE LET initials == extract_initials(first_name, last_name)
         IN  IF initials.raised THEN Caught(st, initials)
             ELSE LET got == get_random_variant(st, initials.value, draw, sample, failAt)
                  IN  IF got.out.raised THEN Caught(got.st, got.out)
                      ELSE Handled(got.st, Response(200,
                              [success |-> TRUE,
                               user_info |-> UserInfo(first_name, last_name, initials.value),
                               image |-> got.out.value,
                               message |-> <<"Profile image generated successfully for",
                                             first_name, last_name>>]))

\* generate_profile_image(): a body whose parse raises is answered 400 in the
\* inner try; a falsy parsed value is parsed again from the raw text, which
\* gives the same value
generate_profile_image(st, body, draw, sample, failAt) ==
    LET parsed == get_json(body)
    IN  IF parsed.raised
        THEN Handled(st, ErrorResponse(400, "Invalid JSON format"))
        ELSE LET data == parsed.value
                 first_name == GetStripped(data, "first_name")
                 last_name == GetStripped(data, "last_name")
             IN  IF first_name.raised THEN Caught(st, first_name)
                 ELSE IF last_name.raised THEN Caught(st, last_name)
                 ELSE GenerateForNames(st, first_name.value, last_name.value,
                                       draw, sample, failAt)

-----------------------------------------------------------------------------
(* POST /generate-variants *)

VariantsForNames(st, first_name, last_name, num_variants, sample, failAt) ==
    IF first_name = <<>> \/ last_name = <<>>
    THEN Handled(st, ErrorResponse(400, BothRequired))
    ELSE IF ~IsInstanceInt(num_variants)
            \/ IntValue(num_variants) < 1 \/ IntValue(num_variants) > MAX_VARIANTS
    THEN Handled(st, ErrorResponse(400, "num_variants must be an integer between 1 and 12"))
    ELSE LET initials == extract_initials(first_name, last_name)
         IN  IF initials.raised THEN Caught(st, initials)
             ELSE LET got == generate_variants(st, initials.value,
                                               IntValue(num_variants), sample, failAt)
                  IN  IF got.out.raised THEN Caught(got.st, got.out)
                      ELSE Handled(got.st, Response(200,
                              [success |-> TRUE,
                               user_info |-> UserInfo(first_name, last_name, initials.value),
                               variants |-> got.out.value,
                               total_variants |-> Len(got.out.value),
                               message |-> <<"Generated", Len(got.out.value), "variants for",
                                             first_name, last_name>>]))

\* generate_variants(), the handler of /generate-variants
route_generate_variants(st, body, sample, failAt) ==
    LET parsed == get_json(body)
    IN  IF parsed.raised THEN Caught(st, parsed)
        ELSE LET data == parsed.value
             IN  IF ~Truthy(data)
                 THEN Handled(st, ErrorResponse(400, "No JSON data provided"))
                 ELSE LET first_name == GetStripped(data, "first_name")
                          last_name == GetStripped(data, "last_name")
                      IN  IF first_name.raised THEN Caught(st, first_name)
                          ELSE IF last_name.raised THEN Caught(st, last_name)
                          ELSE VariantsForNames(st, first_name.value, last_name.value,
                                   DictGet(data, "num_variants", JInt(3)),
                                   sample, failAt)

-----------------------------------------------------------------------------
(* POST /bulk-generate *)

UsersKey == <<"u", "s", "e", "r", "s">>

\* "'users' in data": a key of a dict, an element of a list, a substring of a
\* str; a number or a bool is not iterable
ContainsUsers(data) ==
    CASE data.t = "obj" -> Return(HasKey(data, "users"))
      [] data.t = "list" -> Return(\E k \in 1..Len(data.l) : data.l[k] = JStr(UsersKey))
      [] data.t = "str" ->
            Return(\E k \in 1..Len(data.s) : StartsWith(SubSeq(data.s, k, Len(data.s)), UsersKey))
      [] OTHER -> Raise("TypeError", "argument is not iterable")

BulkFailure(user, msg) == [user |-> user, success |-> FALSE, error |-> msg]

\* one iteration of "for user in users": the store afterwards and the result
\* appended; any exception becomes a failure result carrying str(e)
BulkEntry(st, user, rnd) ==
    LET first_name == GetStripped(user, "first_name")
        last_name == GetStripped(user, "last_name")
    IN  IF first_name.raised THEN [st |-> st, result |-> BulkFailure(user, first_name.msg)]
        ELSE IF last_name.raised THEN [st |-> st, result |-> BulkFailure(user, last_name.msg)]
        ELSE IF first_name.value = <<>> \/ last_name.value = <<>>
        THEN [st |-> st, result |-> BulkFailure(user, BothRequired)]
        ELSE LET initials == extract_initials(first_name.value, last_name.value)
             IN  IF initials.raised
                 THEN [st |-> st, result |-> BulkFailure(user, initials.msg)]
                 ELSE LET got == get_random_variant(st, initials.value,
                                                    rnd.draw, rnd.sample, rnd.failAt)
                      IN  IF got.out.raised
                          THEN [st |-> got.st, result |-> BulkFailure(user, got.out.msg)]
                          ELSE [st |-> got.st,
                                result |-> [user |-> user, success |-> TRUE,
                                            initials |-> initials.value,
                                            image |-> got.out.value]]

\* a loop that ends at the first entry that fails ("break" for "continue")
RECURSIVE BulkLoop_stop_at_failure(_, _, _, _, _, _)
BulkLoop_stop_at_failure(st, users, rnd, k, calls, results) ==
    IF k > Len(users) \/ (results # <<>> /\ ~results[Len(results)].success)
    THEN [st |-> st, results |-> results]
    ELSE LET step == BulkEntry(st, users[k], NthRnd(rnd, calls + 1))
         IN  BulkLoop_stop_at_failure(step.st, users, rnd, k + 1,
                      IF ReachesStore(users[k]) THEN calls + 1 ELSE calls,
                      Append(results, step.result))

\* "for user in users", from entry k on; calls counts the entries so far that
\* got as far as get_random_variant, each of which moved the random stream on
RECURSIVE BulkLoop(_, _, _, _, _, _)
BulkLoop(st, users, rnd, k, calls, results) ==
    IF k > Len(users) THEN [st |-> st, results |-> results]
    ELSE LET step == BulkEntry(st, users[k], NthRnd(rnd, calls + 1))
         IN  BulkLoop(step.st, users, rnd, k + 1,
                      IF ReachesStore(users[k]) THEN calls + 1 ELSE calls,
                      Append(results, step.result))

CountSuccessful(results) == Cardinality({k \in 1..Len(results) : results[k].success})

bulk_generate(st, body, rnd) ==
    LET parsed == get_json(body)
    IN  IF parsed.raised THEN Caught(st, parsed)
        ELSE LET data == parsed.value
                 has == ContainsUsers(data)
             IN  IF ~Truthy(data)
                 THEN Handled(st, ErrorResponse(400, "Users array is required"))
                 ELSE IF has.raised THEN Caught(st, has)
                 ELSE IF ~has.value
                 THEN Handled(st, ErrorResponse(400, "Users array is required"))
                 ELSE IF ~IsDict(data)
                 THEN Caught(st, Raise("TypeError", "indices must be integers"))
                 ELSE IF data.users.t # "list"
                 THEN Handled(st, ErrorResponse(400, "Users must be an array"))
                 ELSE LET users == data.users.l
                          done == BulkLoop(st, users, rnd, 1, 0, <<>>)
                          successful == CountSuccessful(done.results)
                      IN  Handled(done.st, Response(200,
                              [success |-> TRUE,
                               total_users |-> Len(users),
                               successful_generations |-> successful,
                               failed_generations |-> Len(users) - successful,
                               results |-> done.results]))

-----------------------------------------------------------------------------
(* File content and base64 *)

\* the code point of a character the generator draws
Ord(c) ==
    CASE c = "A" -> 65
      [] c = "B" -> 66
      [] c = "S" -> 83
      [] OTHER -> 63

RECURSIVE Ords(_)
Ords(s) == IF s = <<>> THEN <<>> ELSE <<Ord(Head(s))>> \o Ords(Tail(s))

\* the red, green and blue bytes of a palette colour "#RRGGBB"
ColorBytes(bg_color) ==
    CASE bg_color = "#FF9933" -> <<255, 153, 51>>
      [] bg_color = "#FFD700" -> <<255, 215, 0>>
      [] bg_color = "#A569BD" -> <<165, 105, 189>>
      [] bg_color = "#1ABC9C" -> <<26, 188, 156>>
      [] bg_color = "#2C3E50" -> <<44, 62, 80>>
      [] bg_color = "#E74C3C" -> <<231, 76, 60>>
      [] bg_color = "#F39C12" -> <<243, 156, 18>>
      [] bg_color = "#27AE60" -> <<39, 174, 96>>
      [] bg_color = "#8E44AD" -> <<142, 68, 173>>
      [] bg_color = "#D35400" -> <<211, 84, 0>>
      [] bg_color = "#2980B9" -> <<41, 128, 185>>
      [] bg_color = "#C0392B" -> <<192, 57, 43>>
      [] OTHER -> <<0, 0, 0>>

PngSignature == <<137, 80, 78, 71, 13, 10, 26, 10>>

\* the bytes img.save writes for an image: the PNG signature, then the picture,
\* which the drawn text and the background colour determine
PngBytes(img) == PngSignature \o Ords(img.text) \o ColorBytes(img.bg)

\* open(filepath, 'rb').read()
ReadBytes(st, initials, filename) == PngBytes(st.files[<<initials, filename>>])

B64Alphabet ==
    << "A", "B", "C", "D", "E", "F", "G", "H", "I", "J", "K", "L", "M",
       "N", "O", "P", "Q", "R", "S", "T", "U", "V", "W", "X", "Y", "Z",
       "a", "b", "c", "d", "e", "f", "g", "h", "i", "j", "k", "l", "m",
       "n", "o", "p", "q", "r", "s", "t", "u", "v", "w", "x", "y", "z",
       "0", "1", "2", "3", "4", "5", "6", "7", "8", "9", "+", "/" >>

B64Char(n) == B64Alphabet[n + 1]

\* an encoder that shifts the last bits of a one-byte tail by 2 instead of 4
RECURSIVE b64encode_short_shift(_)
b64encode_short_shift(bytes) ==
    IF bytes = <<>> THEN <<>>
    ELSE IF Len(bytes) = 1
    THEN <<B64Char(bytes[1] \div 4), B64Char((bytes[1] % 4) * 4), "=", "=">>
    ELSE IF Len(bytes) = 2
    THEN <<B64Char(bytes[1] \div 4),
           B64Char((bytes[1] % 4) * 16 + (bytes[2] \div 16)),
           B64Char((bytes[2] % 16) * 4), "=">>
    ELSE <<B64Char(bytes[1] \div 4),
           B64Char((bytes[1] % 4) * 16 + (bytes[2] \div 16)),
           B64Char((bytes[2] % 16) * 4 + (bytes[3] \div 64)),
           B64Char(bytes[3] % 64)>>
            \o b64encode_short_shift(SubSeq(bytes, 4, Len(bytes)))

\* base64.b64encode(bytes).decode('utf-8'): 3 bytes become 4 characters, a tail
\* of 1 or 2 bytes is padded with "="
RECURSIVE b64encode(_)
b64encode(bytes) ==
    IF bytes = <<>> THEN <<>>
    ELSE IF Len(bytes) = 1
    THEN <<B64Char(bytes[1] \div 4), B64Char((bytes[1] % 4) * 16), "=", "=">>
    ELSE IF Len(bytes) = 2
    THEN <<B64Char(bytes[1] \div 4),
           B64Char((bytes[1] % 4) * 16 + (bytes[2] \div 16)),
           B64Char((bytes[2] % 16) * 4), "=">>
    ELSE <<B64Char(bytes[1] \div 4),
           B64Char((bytes[1] % 4) * 16 + (bytes[2] \div 16)),
           B64Char((bytes[2] % 16) * 4 + (bytes[3] \div 64)),
           B64Char(bytes[3] % 64)>>
            \o b64encode(SubSeq(bytes, 4, Len(bytes)))

DataPrefix ==
    << "d", "a", "t", "a", ":", "i", "m", "a", "g", "e", "/", "p", "n", "g", ";",
       "b", "a", "s", "e", "6", "4", "," >>

-----------------------------------------------------------------------------
(* GET /image, /image-base64, /colors, /stats, /health *)

NotFound == "Image not found"

\* os.path.exists(os.path.join(OUTPUT_DIR, initials, filename))
FileExists(st, initials, filename) == <<initials, filename>> \in DOMAIN st.files

\* serve_image(): the raw bytes of the file, as image/png
serve_image(st, initials, filename) ==
    IF ~FileExists(st, initials, filename)
    THEN Handled(st, ErrorResponse(404, NotFound))
    ELSE Handled(st, Response(200, [content |-> ReadBytes(st, initials, filename),
                                    mimetype |-> "image/png"]))

\* serve_image_base64(): the file as a data URI in a JSON envelope
serve_image_base64(st, initials, filename) ==
    IF ~FileExists(st, initials, filename)
    THEN Handled(st, ErrorResponse(404, NotFound))
    ELSE Handled(st, Response(200,
            [success |-> TRUE,
             initials |-> initials,
             filename |-> filename,
             image_base64 |-> DataPrefix \o b64encode(ReadBytes(st, initials, filename))]))

get_colors(st) ==
    Handled(st, Response(200,
        [success |-> TRUE,
         colors |-> BACKGROUND_COLORS,
         total_colors |-> Len(BACKGROUND_COLORS),
         description |-> "Spiritual and cultural color palette for MyTempleYatra"]))

\* datetime.now().isoformat(): the value is not modelled
Timestamp == "timestamp"

health_check(st) ==
    Handled(st, Response(200,
        [status |-> "healthy",
         service |-> "MyTempleYatra Profile Image Generator",
         timestamp |-> Timestamp]))

\* a scan that leaves out the directories that hold no variant file
RECURSIVE StatsLoop_skip_empty(_, _, _)
StatsLoop_skip_empty(st, todo, stats) ==
    IF todo = <<>> THEN stats
    ELSE LET initials_dir == Head(todo)
             variants == Len(PngFiles(st, initials_dir))
         IN  IF variants = 0 THEN StatsLoop_skip_empty(st, Tail(todo), stats)
             ELSE StatsLoop_skip_empty(st, Tail(todo),
                    [total_initials |-> stats.total_initials + 1,
                     total_variants |-> stats.total_variants + variants,
                     initials_generated |->
                        Append(stats.initials_generated,
                               [initials |-> initials_dir, variants |-> variants])])

\* "for initials_dir in os.listdir(OUTPUT_DIR)": every entry under OUTPUT_DIR
\* is a directory, since only os.makedirs creates entries there
RECURSIVE StatsLoop(_, _, _)
StatsLoop(st, todo, stats) ==
    IF todo = <<>> THEN stats
    ELSE LET initials_dir == Head(todo)
             variants == Len(PngFiles(st, initials_dir))
         IN  StatsLoop(st, Tail(todo),
                [total_initials |-> stats.total_initials + 1,
                 total_variants |-> stats.total_variants + variants,
                 initials_generated |->
                    Append(stats.initials_generated,
                           [initials |-> initials_dir, variants |-> variants])])

get_stats(st) ==
    Handled(st, Response(200,
        [success |-> TRUE,
         stats |-> StatsLoop(st, SetToSeq(st.dirs),
                     [total_initials |-> 0, total_variants |-> 0,
                      initials_generated |-> <<>>]),
         timestamp |-> Timestamp]))

-----------------------------------------------------------------------------
(* The requests and random outcomes the model draws from *)

NameA == JStr(<<"a">>)

\* first_name and last_name of a request: none, one missing, empty, blank, not
\* a string (with and without the other name), and two usable pairs (initials
\* AA and AB)
NamePairs ==
    { <<Missing, Missing>>, <<NameA, Missing>>, <<Missing, NameA>>, <<JInt(7), Missing>>,
      <<JStr(<<>>), JStr(<<>>)>>, <<JStr(<<" ">>), NameA>>, <<NameA, JStr(<<" ", " ">>)>>,
      <<JInt(7), NameA>>,
      <<NameA, NameA>>, <<JStr(<<" ", "A">>), JStr(<<"b", " ">>)>> }

\* bodies that are no JSON object
NonObjectBodies ==
    {Malformed, Absent, JNull, JList(<<>>), JList(<<JInt(1)>>), JList(<<JStr(UsersKey)>>),
     JInt(5)}

\* num_variants values: integers around the limits, and values that are no integer
CountValues ==
    {JInt(i) : i \in (-1..MaxCount) \cup {MAX_VARIANTS, MAX_VARIANTS + 1, 20}}
        \cup {JBool(TRUE), JBool(FALSE), JStr(<<"3">>), JFloat, JNull}

GenerateBodies ==
    {JBody(n[1], n[2], Missing) : n \in NamePairs}
        \cup {JBody(NameA, NameA, JInt(20))}
        \cup NonObjectBodies

VariantsBodies ==
    {JBody(n[1], n[2], Missing) : n \in NamePairs}
        \cup {JBody(NameA, NameA, c) : c \in CountValues}
        \cup {JBody(Missing, Missing, JInt(20))}
        \cup NonObjectBodies

\* entries of a users array: a usable one, one with an empty name, one with a
\* name that is no string, one that is no object
UserEntries ==
    {JUser(NameA, NameA), JUser(NameA, JStr(<<>>)), JUser(JInt(7), NameA), JInt(5)}

BulkBodies ==
    {JUsers(JList(us)) : us \in SeqsUpTo(UserEntries, MaxUsers)}
        \cup {JUsers(Missing), JUsers(NameA)}
        \cup NonObjectBodies

\* the random outcomes to draw for a request: none when it draws nothing
RndsFor(body) ==
    IF \/ ReachesStore(body)
       \/ /\ IsDict(body) /\ HasKey(body, "users") /\ body.users.t = "list"
          /\ \E k \in 1..Len(body.users.l) : ReachesStore(body.users.l[k])
    THEN Rnds
    ELSE {NoRnd}

-----------------------------------------------------------------------------
(* The service: one request at a time *)

NoRequest == [endpoint |-> "none"]
NoResponse == [status |-> 0]

Threads == 1..NumThreads

\* a thread before a handler calls the generator on it
IdleThread ==
    [pc |-> "idle", kind |-> "none", num_variants |-> 0, colors |-> <<>>,
     variant |-> 0, variants |-> <<>>, result |-> <<>>]

\* requests are handled one at a time: no thread takes a call
NoThreads == [t \in Threads |-> [IdleThread EXCEPT !.pc = "off"]]

Init ==
    /\ dirs = {}
    /\ files = EmptyFiles
    /\ io = <<>>
    /\ req = NoRequest
    /\ resp = NoResponse
    /\ served = 0
    /\ threads = NoThreads
    /\ returned = {}

\* the urls a success response of a generating endpoint carries
ReturnedUrls(endpoint, response) ==
    IF response.status # 200 THEN {}
    ELSE IF endpoint = "/generate" THEN {response.body.image.url}
    ELSE IF endpoint = "/generate-variants"
    THEN {response.body.variants[k].url : k \in 1..Len(response.body.variants)}
    ELSE IF endpoint = "/bulk-generate"
    THEN {response.body.results[k].image.url :
              k \in {j \in 1..Len(response.body.results) : response.body.results[j].success}}
    ELSE {}

\* a request arrives while the service is idle and its handler runs to its return
Serve(endpoint, body, rnd, handled) ==
    /\ req = NoRequest
    /\ served < MaxRequests
    /\ \E h \in {handled} :
        /\ dirs' = h.st.dirs
        /\ files' = h.st.files
        /\ io' = h.st.io
        /\ resp' = h.resp
    /\ req' = [endpoint |-> endpoint, body |-> body, rnd |-> rnd]
    /\ served' = served + 1
    /\ UNCHANGED <<threads, returned>>

Generate ==
    \E body \in GenerateBodies :
        \E rnd \in RndsFor(body) :
            Serve("/generate", body, rnd,
                  generate_profile_image(Store(dirs, files, <<>>), body,
                                         rnd.draw, rnd.sample, rnd.failAt))

GenerateVariants ==
    \E body \in VariantsBodies :
        \E rnd \in RndsFor(body) :
            Serve("/generate-variants", body, rnd,
                  route_generate_variants(Store(dirs, files, <<>>), body,
                                          rnd.sample, rnd.failAt))

BulkGenerate ==
    \E body \in BulkBodies :
        \E rnd \in RndsFor(body) :
            Serve("/bulk-generate", body, rnd,
                  bulk_generate(Store(dirs, files, <<>>), body, rnd))

\* a GET request arrives while the service is idle; its handler runs to its return
ServeGet(request, handled) ==
    /\ req = NoRequest
    /\ served < MaxRequests
    /\ \E h \in {handled} :
        /\ dirs' = h.st.dirs
        /\ files' = h.st.files
        /\ io' = h.st.io
        /\ resp' = h.resp
    /\ req' = request
    /\ served' = served + 1
    /\ UNCHANGED <<threads, returned>>

\* the paths asked for: every stored file, and one that may not be stored
ImageTargets ==
    DOMAIN files \cup {<<(<<"A", "A">>), VariantFilename(<<"A", "A">>, 1)>>}

ServeImage ==
    \E target \in ImageTargets :
        ServeGet([endpoint |-> "/image", initials |-> target[1], filename |-> target[2]],
                 serve_image(Store(dirs, files, <<>>), target[1], target[2]))

ServeImageBase64 ==
    \E target \in ImageTargets :
        ServeGet([endpoint |-> "/image-base64", initials |-> target[1],
                  filename |-> target[2]],
                 serve_image_base64(Store(dirs, files, <<>>), target[1], target[2]))

\* the path of the request a client sends for a url: what stands before the
\* query ("?") and the fragment ("#")
RequestPath(url) == Split(Split(url, <<"?">>)[1], <<"#">>)[1]

ImageRule == <<"i", "m", "a", "g", "e">>

Base64Rule == <<"i", "m", "a", "g", "e", "-", "b", "a", "s", "e", "6", "4">>

\* the answer to a path that matches no rule of the application
NoSuchRoute == "Not Found"

\* the rules '/image/<initials>/<filename>' and '/image-base64/<initials>/<filename>':
\* each of the two parts is a non-empty segment without "/"
Dispatch(st, url) ==
    LET parts == Split(RequestPath(url), <<"/">>)
        matches == /\ Len(parts) = 4
                   /\ parts[1] = <<>>
                   /\ parts[3] # <<>>
                   /\ parts[4] # <<>>
    IN  IF matches /\ parts[2] = ImageRule
        THEN serve_image(st, parts[3], parts[4])
        ELSE IF matches /\ parts[2] = Base64Rule
        THEN serve_image_base64(st, parts[3], parts[4])
        ELSE Handled(st, ErrorResponse(404, NoSuchRoute))

\* the /image-base64 path that matches an /image url
Base64Url(url) == <<"/">> \o Base64Rule \o SubSeq(url, Len(ImageRule) + 2, Len(url))

\* a client follows a url it was given, or the matching /image-base64 path
FollowUrl ==
    \E u \in returned :
        \E url \in {u, Base64Url(u)} :
            ServeGet([endpoint |-> "GET", url |-> url],
                     Dispatch(Store(dirs, files, <<>>), url))

GetColors == ServeGet([endpoint |-> "/colors"], get_colors(Store(dirs, files, <<>>)))

GetStats == ServeGet([endpoint |-> "/stats"], get_stats(Store(dirs, files, <<>>)))

HealthCheck == ServeGet([endpoint |-> "/health"], health_check(Store(dirs, files, <<>>)))

\* the response has been sent: the service is idle again
Complete ==
    /\ req # NoRequest
    /\ resp # NoResponse
    /\ req' = NoRequest
    /\ resp' = NoResponse
    /\ io' = <<>>
    /\ UNCHANGED <<dirs, files, served, threads, returned>>

Next ==
    \/ Generate \/ GenerateVariants \/ BulkGenerate
    \/ ServeImage \/ ServeImageBase64 \/ GetColors \/ GetStats \/ HealthCheck
    \/ Complete

Spec == Init /\ [][Next]_vars

-----------------------------------------------------------------------------
(* The service with a client that keeps the urls it is given and follows them *)

\* names that begin with a character that is no letter
OtherNames == {JStr(<<"?">>)}

\* /generate for such a first name
GenerateOther ==
    \E first_name \in OtherNames :
        \E rnd \in Rnds :
            Serve("/generate", JBody(first_name, NameA, Missing), rnd,
                  generate_profile_image(Store(dirs, files, <<>>),
                                         JBody(first_name, NameA, Missing),
                                         rnd.draw, rnd.sample, rnd.failAt))

\* the response reaches the client, which keeps its urls; the service is idle again
Deliver ==
    /\ req # NoRequest
    /\ resp # NoResponse
    /\ returned' = returned \cup ReturnedUrls(req.endpoint, resp)
    /\ req' = NoRequest
    /\ resp' = NoResponse
    /\ io' = <<>>
    /\ UNCHANGED <<dirs, files, served, threads>>

NextUrls ==
    \/ Generate \/ GenerateOther \/ GenerateVariants \/ BulkGenerate
    \/ ServeImage \/ ServeImageBase64 \/ FollowUrl
    \/ GetColors \/ GetStats \/ HealthCheck
    \/ Deliver

SpecUrls == Init /\ [][NextUrls]_vars

-----------------------------------------------------------------------------
(* extract_initials on its own: the inputs are drawn by Init *)

InitInitials ==
    /\ dirs = {}
    /\ files = EmptyFiles
    /\ io = <<>>
    /\ req \in {[endpoint |-> "extract_initials", first_name |-> f, last_name |-> l] :
                    f \in Names, l \in Names}
    /\ resp = NoResponse
    /\ served = 0
    /\ threads = NoThreads
    /\ returned = {}

ExtractInitials ==
    /\ req.endpoint = "extract_initials"
    /\ resp = NoResponse
    /\ resp' = extract_initials(req.first_name, req.last_name)
    /\ UNCHANGED <<dirs, files, io, req, served, threads, returned>>

NextInitials == ExtractInitials

SpecInitials == InitInitials /\ [][NextInitials]_vars

-----------------------------------------------------------------------------
(* Concurrent calls of the generator: the server handles each request on a
   thread of its own and the generator takes no lock, so calls for the same
   initials interleave between their accesses to the store. One step is one
   access: os.path.exists, os.listdir, os.makedirs, or one pass of the loop
   with its img.save (a file is written as a whole). *)

\* the initials the concurrent calls are for
SharedInitials == <<"A", "A">>

\* what thread t draws from the random generator
ThreadRnd(t) == NthRnd(NoRnd, t)

\* the store as a call finds it
Disk == Store(dirs, files, <<>>)

InitConcurrent ==
    /\ dirs = {}
    /\ files = EmptyFiles
    /\ io = <<>>
    /\ req = [endpoint |-> "threads"]
    /\ resp = NoResponse
    /\ served = 0
    /\ threads = [t \in Threads |-> IdleThread]
    /\ returned = {}

\* thread t moves on; the store is left alone
Local(t, next) ==
    /\ threads' = [threads EXCEPT ![t] = next]
    /\ UNCHANGED <<dirs, files, io, req, resp, served, returned>>

\* a handler calls generate_variants(initials, num_variants)
CallGenerateVariants(t) ==
    /\ threads[t].pc = "idle"
    /\ \E n \in 1..MaxCount :
           Local(t, [threads[t] EXCEPT !.pc = "makedirs", !.kind = "generate_variants",
                                       !.num_variants = n])

\* a handler calls get_random_variant(initials)
CallGetRandomVariant(t) ==
    /\ threads[t].pc = "idle"
    /\ Local(t, [threads[t] EXCEPT !.pc = "exists", !.kind = "get_random_variant"])

\* if not os.path.exists(initials_dir): return random.choice(self.generate_variants(initials))
Exists(t) ==
    /\ threads[t].pc = "exists"
    /\ IF SharedInitials \in dirs
       THEN Local(t, [threads[t] EXCEPT !.pc = "listdir"])
       ELSE Local(t, [threads[t] EXCEPT !.pc = "makedirs",
                                        !.num_variants = DEFAULT_VARIANTS])

\* choosing from the listing without the check for an empty one:
\* random.choice([]) raises IndexError
ListDir_unchecked(t) ==
    /\ threads[t].pc = "listdir"
    /\ LET found == PngFiles(Disk, SharedInitials)
           chosen == ChooseExisting(Disk, SharedInitials, found, ThreadRnd(t).draw).out
       IN  IF found = <<>> \/ chosen.raised
           THEN Local(t, [threads[t] EXCEPT !.pc = "raised"])
           ELSE Local(t, [threads[t] EXCEPT !.pc = "done", !.result = <<chosen.value>>])

\* the listing: an empty one generates, any other returns one of the listed files
ListDir(t) ==
    /\ threads[t].pc = "listdir"
    /\ LET found == PngFiles(Disk, SharedInitials)
           chosen == ChooseExisting(Disk, SharedInitials, found, ThreadRnd(t).draw).out
       IN  IF found = <<>>
           THEN Local(t, [threads[t] EXCEPT !.pc = "makedirs",
                                            !.num_variants = DEFAULT_VARIANTS])
           ELSE IF chosen.raised
           THEN Local(t, [threads[t] EXCEPT !.pc = "raised"])
           ELSE Local(t, [threads[t] EXCEPT !.pc = "done", !.result = <<chosen.value>>])

\* generate_variants up to its loop: os.makedirs and random.sample
MakeDirs(t) ==
    /\ threads[t].pc = "makedirs"
    /\ LET n == threads[t].num_variants
           colors == random_sample(ThreadRnd(t).sample, Min(n, Len(BACKGROUND_COLORS)))
       IN  /\ dirs' = makedirs(Disk, SharedInitials).dirs
           /\ files' = makedirs(Disk, SharedInitials).files
           /\ threads' = [threads EXCEPT ![t] =
                  IF colors.raised THEN [@ EXCEPT !.pc = "raised"]
                  ELSE [@ EXCEPT !.pc = "save", !.colors = colors.value, !.variant = 1]]
           /\ UNCHANGED <<io, req, resp, served, returned>>

\* one pass of the loop of generate_variants: the image is saved and its
\* descriptor appended; after the last pass the call returns, get_random_variant
\* with random.choice of the list
Save(t) ==
    /\ threads[t].pc = "save"
    /\ LET th == threads[t]
           bg_color == th.colors[th.variant]
           filename == VariantFilename(SharedInitials, th.variant)
           img == create_image(SharedInitials, th.variant, bg_color)
           variants == Append(th.variants, NewVariant(SharedInitials, th.variant, bg_color))
       IN  /\ files' = save(Disk, SharedInitials, filename, img).files
           /\ threads' = [threads EXCEPT ![t] =
                  IF th.variant < th.num_variants
                  THEN [@ EXCEPT !.variant = @ + 1, !.variants = variants]
                  ELSE [@ EXCEPT !.pc = "done", !.variants = variants,
                                 !.result = IF th.kind = "generate_variants"
                                            THEN variants
                                            ELSE <<random_choice(variants, ThreadRnd(t).draw)>>]]
           /\ UNCHANGED <<dirs, io, req, resp, served, returned>>

NextConcurrent ==
    \E t \in Threads :
        \/ CallGenerateVariants(t) \/ CallGetRandomVariant(t)
        \/ Exists(t) \/ ListDir(t) \/ MakeDirs(t) \/ Save(t)

SpecConcurrent == InitConcurrent /\ [][NextConcurrent]_vars

\* the service either way: requests handled one at a time, or calls on threads
InitAll == Init \/ InitConcurrent

NextAll == Next \/ NextConcurrent

SpecAll == InitAll /\ [][NextAll]_vars

-----------------------------------------------------------------------------
(* What the claims speak about *)

\* the step handles a request
Serving == req = NoRequest /\ req' # NoRequest

DefaultFilenames(initials) == {VariantFilename(initials, k) : k \in 1..DEFAULT_VARIANTS}

\* whether the store holds a variant file for the initials
HasVariantFile(fs, initials) ==
    \E f \in FilesIn(fs, initials) : EndsWith(f, PngSuffix)

\* the calls of get_random_variant that a handled request made on the store it
\* found, with what each returned: the one call of a successful /generate, and
\* the one call of a successful /bulk-generate of a single entry
SingleCalls(rq, rs) ==
    IF rq.endpoint = "/generate" /\ rs.status = 200
    THEN {[initials |-> rs.body.user_info.initials, image |-> rs.body.image]}
    ELSE IF /\ rq.endpoint = "/bulk-generate" /\ rs.status = 200
            /\ Len(rs.body.results) = 1 /\ rs.body.results[1].success
    THEN {[initials |-> rs.body.results[1].initials, image |-> rs.body.results[1].image]}
    ELSE {}

\* the saves among the store accesses, as file names
SavedNames(log) ==
    {log[k].name : k \in {j \in 1..Len(log) : log[j].op = "save"}}

-----------------------------------------------------------------------------
(* C1: get_random_variant, called when the store holds no variant file for   *)
(* the initials (no directory, or a directory without a .png file) and        *)
(* returning, has written exactly the files {initials}_variant1..3, which are *)
(* then all the files of the group, and returns the descriptor of one of      *)
(* them.                                                                      *)
C1_LazyGeneration ==
    [][Serving =>
        \A c \in SingleCalls(req', resp') :
            ~HasVariantFile(files, c.initials) =>
                /\ FilesIn(files', c.initials) = DefaultFilenames(c.initials)
                /\ SavedNames(io') = DefaultFilenames(c.initials)
                /\ Cardinality(DefaultFilenames(c.initials)) = DEFAULT_VARIANTS
                /\ Len(io') = DEFAULT_VARIANTS + 1
                /\ c.image.variant \in 1..DEFAULT_VARIANTS
                /\ c.image.filename = VariantFilename(c.initials, c.image.variant)
                /\ c.image.url = ImageUrl(c.initials, c.image.filename)
                /\ files'[<<c.initials, c.image.filename>>].bg = c.image.bg_color]_vars

\* a /generate answered 200 that generated into a directory that existed, empty
C1_Witness ==
    /\ req.endpoint = "/generate"
    /\ resp.status = 200
    /\ Len(io) = DEFAULT_VARIANTS + 1
    /\ io[1].op = "makedirs" /\ ~io[1].created
    /\ FilesIn(files, resp.body.user_info.initials)
         = DefaultFilenames(resp.body.user_info.initials)

-----------------------------------------------------------------------------
(* C2: get_random_variant, called when the group holds at least one variant   *)
(* file, returns the descriptor of a file that was in the group and touches   *)
(* nothing: no directory or file is created or written, every group holds the *)
(* files it held.                                                             *)
C2_ExistingUntouched ==
    [][Serving =>
        \A c \in SingleCalls(req', resp') :
            HasVariantFile(files, c.initials) =>
                /\ c.image.filename \in FilesIn(files, c.initials)
                /\ c.image.filename = VariantFilename(c.initials, c.image.variant)
                /\ io' = <<>>
                /\ files' = files
                /\ dirs' = dirs]_vars

\* a /generate answered 200 with a file of a group that a request before it filled
C2_Witness ==
    /\ req.endpoint = "/generate"
    /\ resp.status = 200
    /\ io = <<>>
    /\ served = 2
    /\ resp.body.image.filename \in FilesIn(files, resp.body.user_info.initials)

-----------------------------------------------------------------------------
(* C3: /generate-variants with a num_variants n that is an integer in 1..12   *)
(* (or absent: 3), when it returns the variants, returns exactly n of them,    *)
(* numbered 1..n in order, named {initials}_variant1.png .. _variantn.png, the *)
(* names pairwise distinct, the colours pairwise distinct and of the palette.  *)

\* the count a /generate-variants body asks for, when it is an integer in 1..12
RequestedCount(body) ==
    IF ~HasKey(body, "num_variants") THEN 3
    ELSE IF body.num_variants.t = "int" /\ body.num_variants.i \in 1..MAX_VARIANTS
    THEN body.num_variants.i
    ELSE 0

Palette == {BACKGROUND_COLORS[k] : k \in 1..Len(BACKGROUND_COLORS)}

C3_VariantsReturned ==
    (req.endpoint = "/generate-variants" /\ resp.status = 200
        /\ RequestedCount(req.body) > 0) =>
        LET n == RequestedCount(req.body)
            vs == resp.body.variants
            I == resp.body.user_info.initials
        IN  /\ Len(vs) = n
            /\ resp.body.total_variants = n
            /\ \A k \in 1..n :
                /\ vs[k].variant = k
                /\ vs[k].filename = VariantFilename(I, k)
                /\ vs[k].url = ImageUrl(I, vs[k].filename)
                /\ vs[k].bg_color \in Palette
                /\ <<I, vs[k].filename>> \in DOMAIN files
                /\ files[<<I, vs[k].filename>>].bg = vs[k].bg_color
            /\ \A j, k \in 1..n :
                j # k => /\ vs[j].filename # vs[k].filename
                         /\ vs[j].bg_color # vs[k].bg_color

\* a /generate-variants that returned as many variants as the palette has colours
C3_Witness ==
    /\ req.endpoint = "/generate-variants"
    /\ resp.status = 200
    /\ RequestedCount(req.body) = MAX_VARIANTS
    /\ Len(resp.body.variants) = Len(BACKGROUND_COLORS)

-----------------------------------------------------------------------------
(* C4: /generate-variants with usable names and a num_variants that is not an *)
(* integer in 1..12 is answered 400 and makes no store access.                *)

\* a JSON integer in 1..12 (true and false are JSON booleans, not integers)
IsValidCount(v) == v.t = "int" /\ v.i \in 1..MAX_VARIANTS

C4_InvalidCountRejected ==
    (req.endpoint = "/generate-variants" /\ ReachesStore(req.body)
        /\ HasKey(req.body, "num_variants") /\ ~IsValidCount(req.body.num_variants)) =>
        (resp.status = 400 /\ io = <<>>)

-----------------------------------------------------------------------------
(* C5: /generate with a num_variants that is not an integer in 1..12 is       *)
(* answered 400, whatever the names.                                          *)
C5_GenerateRejectsInvalidCount ==
    (req.endpoint = "/generate" /\ IsDict(req.body)
        /\ HasKey(req.body, "num_variants") /\ ~IsValidCount(req.body.num_variants)) =>
        resp.status = 400

-----------------------------------------------------------------------------
(* C6: /generate and /generate-variants answer 400 with the error "Both       *)
(* first_name and last_name are required", and make no store access, whenever *)
(* the body is a JSON object in which first_name or last_name is missing or   *)
(* empty after trimming.                                                      *)

NameLacking(body, key) ==
    \/ ~HasKey(body, key)
    \/ body[key].t = "str" /\ Strip(body[key].s) = <<>>

C6_NamesRequired ==
    (req.endpoint \in {"/generate", "/generate-variants"} /\ IsDict(req.body)
        /\ (NameLacking(req.body, "first_name") \/ NameLacking(req.body, "last_name"))) =>
        (resp.status = 400 /\ resp.body.error = BothRequired /\ io = <<>>)

-----------------------------------------------------------------------------
(* C7: extract_initials raises ValueError, and nothing else, whenever either  *)
(* name is empty or consists of whitespace only.                              *)
C7_BlankNamesValueError ==
    (req.endpoint = "extract_initials" /\ resp # NoResponse
        /\ (Strip(req.first_name) = <<>> \/ Strip(req.last_name) = <<>>)) =>
        (resp.raised /\ resp.exc = "ValueError")

-----------------------------------------------------------------------------
(* C8: for names that are non-empty after trimming, extract_initials returns  *)
(* exactly 2 uppercase characters: the uppercased first character of the      *)
(* trimmed first name, then that of the trimmed last name.                    *)
C8_TwoUppercaseChars ==
    (req.endpoint = "extract_initials" /\ resp # NoResponse
        /\ Strip(req.first_name) # <<>> /\ Strip(req.last_name) # <<>>) =>
        /\ ~resp.raised
        /\ Len(resp.value) = 2
        /\ \A k \in 1..Len(resp.value) : IsUpperChar(resp.value[k])
        /\ resp.value = Upper(Head(Strip(req.first_name)))
                            \o Upper(Head(Strip(req.last_name)))

-----------------------------------------------------------------------------
(* C9: on /generate, /generate-variants and /bulk-generate a body that is not *)
(* JSON text, is absent, or is JSON but no object is answered 400 (never 500)  *)
(* and makes no store access.                                                 *)
C9_MalformedBodyIs400 ==
    (req.endpoint \in {"/generate", "/generate-variants", "/bulk-generate"}
        /\ ~IsDict(req.body)) =>
        (resp.status = 400 /\ io = <<>>)

-----------------------------------------------------------------------------
(* C10: /bulk-generate with an array users answers 200 with one result per    *)
(* entry in input order, each carrying its entry; successes and failures add   *)
(* up to the number of entries; an entry that is no object, or has a missing,  *)
(* empty or non-string name, gets a failure result with an error message;     *)
(* every other entry succeeds with its initials and a stored image (or        *)
(* fails with the message of the save that failed); and the results of those   *)
(* entries and the store afterwards are those of the same batch without the    *)
(* rejected entries, handled with the same random outcomes.                   *)

IsUsersArray(body) == IsDict(body) /\ HasKey(body, "users") /\ body.users.t = "list"

C10_Results ==
    (req.endpoint = "/bulk-generate" /\ IsUsersArray(req.body)) =>
        LET users == req.body.users.l
            rs == resp.body.results
        IN  /\ resp.status = 200
            /\ Len(rs) = Len(users)
            /\ resp.body.total_users = Len(users)
            /\ resp.body.successful_generations + resp.body.failed_generations = Len(users)
            /\ resp.body.successful_generations
                 = Cardinality({k \in 1..Len(rs) : rs[k].success})
            /\ \A k \in 1..Len(users) :
                /\ rs[k].user = users[k]
                /\ ~ReachesStore(users[k]) =>
                      (~rs[k].success /\ "error" \in DOMAIN rs[k])
                /\ ReachesStore(users[k]) =>
                      \/ /\ rs[k].success
                         /\ <<rs[k].initials, rs[k].image.filename>> \in DOMAIN files
                         /\ rs[k].image.url = ImageUrl(rs[k].initials, rs[k].image.filename)
                      \/ ~rs[k].success /\ rs[k].error = SaveFailed

C10_Independent ==
    (Serving /\ req'.endpoint = "/bulk-generate" /\ IsUsersArray(req'.body)) =>
        LET kept == SelectSeq(req'.body.users.l, ReachesStore)
            keptResults == SelectSeq(resp'.body.results, LAMBDA r : ReachesStore(r.user))
        IN  \E alone \in {BulkLoop(Store(dirs, files, <<>>), kept, req'.rnd, 1, 0, <<>>)} :
                /\ alone.results = keptResults
                /\ alone.st.files = files'
                /\ alone.st.dirs = dirs'
                /\ alone.st.io = io'

C10_BulkIsolatesFailures == []C10_Results /\ [][C10_Independent]_vars

\* a batch of one usable entry and one with an empty name: one success, one failure
C10_Witness ==
    /\ req.endpoint = "/bulk-generate"
    /\ resp.status = 200
    /\ resp.body.successful_generations = 1
    /\ resp.body.failed_generations = 1
    /\ \E k \in 1..Len(resp.body.results) :
          /\ ~resp.body.results[k].success
          /\ resp.body.results[k].error = BothRequired

-----------------------------------------------------------------------------
(* C11: /generate with two valid names, in whatever state the store is, is    *)
(* answered 200 with the derived initials I and an image.url                  *)
(* /image/I/I_variantK.png with K in 1..3 (no save failing).                   *)

\* the initials of a body with two usable names
InitialsOf(body) ==
    extract_initials(GetStripped(body, "first_name").value,
                     GetStripped(body, "last_name").value).value

VariantUrls(initials, numbers) ==
    {ImageUrl(initials, VariantFilename(initials, k)) : k \in numbers}

C11_UrlAmongFirstThree ==
    (req.endpoint = "/generate" /\ ReachesStore(req.body) /\ req.rnd.failAt = 0) =>
        /\ resp.status = 200
        /\ resp.body.user_info.initials = InitialsOf(req.body)
        /\ resp.body.image.url
             \in VariantUrls(InitialsOf(req.body), 1..DEFAULT_VARIANTS)

\* C11 as amended: the url names a variant K in 1..12 that is stored in group
\* I when the response is given, and K is in 1..3 when the group held no file
\* other than variant1..3 before the request.
C11_UrlOfStoredVariant ==
    [][(Serving /\ req'.endpoint = "/generate" /\ ReachesStore(req'.body)
            /\ (req'.rnd.failAt = 0 \/ HasVariantFile(files, InitialsOf(req'.body)))) =>
        LET I == InitialsOf(req'.body)
        IN  /\ resp'.status = 200
            /\ resp'.body.user_info.initials = I
            /\ \E K \in 1..MAX_VARIANTS :
                  /\ resp'.body.image.url = ImageUrl(I, VariantFilename(I, K))
                  /\ resp'.body.image.variant = K
                  /\ VariantFilename(I, K) \in FilesIn(files', I)
                  /\ (FilesIn(files, I) \subseteq DefaultFilenames(I)) =>
                        K \in 1..DEFAULT_VARIANTS]_vars

\* a /generate answered with a variant numbered above 3, of a group that a
\* /generate-variants before it filled
C11_Witness ==
    /\ req.endpoint = "/generate"
    /\ resp.status = 200
    /\ resp.body.image.variant > DEFAULT_VARIANTS
    /\ resp.body.image.filename \in FilesIn(files, resp.body.user_info.initials)

-----------------------------------------------------------------------------
(* C12: for every stored file both GET /image and GET /image-base64 answer    *)
(* 200, and the bytes of the one equal the base64-decoded payload (after the   *)
(* data:image/png;base64, prefix) of the other, both being the file's bytes.   *)

B64Index(c) == (CHOOSE k \in 1..Len(B64Alphabet) : B64Alphabet[k] = c) - 1

\* base64 decoding, as the client of the API does it: 4 characters become 3
\* bytes, fewer where the group ends with "="
RECURSIVE B64Decode(_)
B64Decode(chars) ==
    IF chars = <<>> THEN <<>>
    ELSE LET i1 == B64Index(chars[1])
             i2 == B64Index(chars[2])
         IN  IF chars[3] = "="
             THEN <<i1 * 4 + (i2 \div 16)>>
             ELSE IF chars[4] = "="
             THEN <<i1 * 4 + (i2 \div 16),
                    (i2 % 16) * 16 + (B64Index(chars[3]) \div 4)>>
             ELSE <<i1 * 4 + (i2 \div 16),
                    (i2 % 16) * 16 + (B64Index(chars[3]) \div 4),
                    (B64Index(chars[3]) % 4) * 64 + B64Index(chars[4])>>
                    \o B64Decode(SubSeq(chars, 5, Len(chars)))

Payload(image_base64) == SubSeq(image_base64, Len(DataPrefix) + 1, Len(image_base64))

C12_Base64RoundTrip ==
    /\ (req.endpoint \in {"/image", "/image-base64"}
            /\ <<req.initials, req.filename>> \in DOMAIN files) => resp.status = 200
    /\ (req.endpoint = "/image" /\ resp.status = 200) =>
            resp.body.content = PngBytes(files[<<req.initials, req.filename>>])
    /\ (req.endpoint = "/image-base64" /\ resp.status = 200) =>
            LET direct == serve_image(Store(dirs, files, io), req.initials, req.filename).resp
            IN  /\ direct.status = 200
                /\ StartsWith(resp.body.image_base64, DataPrefix)
                /\ Len(Payload(resp.body.image_base64)) % 4 = 0
                /\ B64Decode(Payload(resp.body.image_base64)) = direct.body.content
                /\ direct.body.content = PngBytes(files[<<req.initials, req.filename>>])

\* a stored file served as base64 whose padded payload decodes to as many bytes
\* as the file has
C12_Witness ==
    /\ req.endpoint = "/image-base64"
    /\ resp.status = 200
    /\ Payload(resp.body.image_base64)[Len(Payload(resp.body.image_base64))] = "="
    /\ Len(B64Decode(Payload(resp.body.image_base64)))
         = Len(PngSignature) + Len(req.initials) + 3

-----------------------------------------------------------------------------
(* C13: /stats is answered 200 in every store state and reports the store:    *)
(* total_initials is the number of group directories, initials_generated has   *)
(* one entry per group with the number of its .png files, total_variants is    *)
(* the sum of those numbers (0, 0 and no entry on an empty store); and the      *)
(* request leaves the store as it was.                                        *)

RECURSIVE SumVariants(_)
SumVariants(entries) ==
    IF entries = <<>> THEN 0 ELSE Head(entries).variants + SumVariants(Tail(entries))

VariantFilesOf(fs, initials) == {f \in FilesIn(fs, initials) : EndsWith(f, PngSuffix)}

C13_Reported ==
    req.endpoint = "/stats" =>
        /\ resp.status = 200
        /\ LET stats == resp.body.stats
               entries == stats.initials_generated
           IN  /\ stats.total_initials = Cardinality(dirs)
               /\ Len(entries) = Cardinality(dirs)
               /\ {entries[k].initials : k \in 1..Len(entries)} = dirs
               /\ \A k \in 1..Len(entries) :
                     entries[k].variants
                        = Cardinality(VariantFilesOf(files, entries[k].initials))
               /\ stats.total_variants = SumVariants(entries)
               /\ stats.total_variants = Cardinality(DOMAIN files)
               /\ dirs = {} =>
                     (stats.total_initials = 0 /\ stats.total_variants = 0 /\ entries = <<>>)

C13_StoreUnchanged ==
    (Serving /\ req'.endpoint = "/stats") => (dirs' = dirs /\ files' = files /\ io' = <<>>)

C13_StatsReportStore == []C13_Reported /\ [][C13_StoreUnchanged]_vars

\* /stats answered on a store with a group of more than 3 variant files
C13_Witness ==
    /\ req.endpoint = "/stats"
    /\ resp.status = 200
    /\ resp.body.stats.total_initials = 1
    /\ resp.body.stats.total_variants > DEFAULT_VARIANTS
    /\ resp.body.stats.total_variants = Cardinality(DOMAIN files)

-----------------------------------------------------------------------------
(* C14 *)

\* the file that thread t saves in the pass of the loop it is about to make
SavedBy(t) == <<SharedInitials, VariantFilename(SharedInitials, threads[t].variant)>>

\* every stored file carries the colour that a call which saved it lists for it
C14_ColorOfSomeWriter ==
    \A f \in DOMAIN files :
        \E t \in Threads :
            \E i \in 1..Len(threads[t].variants) :
                /\ threads[t].variants[i].filename = f[2]
                /\ files[f] = create_image(f[1], threads[t].variants[i].variant,
                                           threads[t].variants[i].bg_color)

\* a save replaces the whole content of its file by the saving call's image,
\* whatever another call wrote there, and touches no other file; no other step
\* changes a file
C14_SaveReplaces ==
    \A t \in Threads :
        threads'[t] # threads[t] =>
            IF threads[t].pc = "save"
            THEN /\ DOMAIN files' = DOMAIN files \cup {SavedBy(t)}
                 /\ files'[SavedBy(t)] =
                        create_image(SharedInitials, threads[t].variant,
                            threads'[t].variants[threads[t].variant].bg_color)
                 /\ \A f \in DOMAIN files \ {SavedBy(t)} : files'[f] = files[f]
            ELSE files' = files

\* C14: concurrent generate_variants calls for the same initials interleave
\* their saves without a lock, and each file holds what the call that saved it
\* last wrote: every save replaces the file's content by the saving call's image
\* for that number and leaves the other files as the other calls wrote them.
C14_LastWriterWins == []C14_ColorOfSomeWriter /\ [][C14_SaveReplaces]_vars

\* the colour of the stored variant k
DiskColor(k) == files[<<SharedInitials, VariantFilename(SharedInitials, k)>>].bg

\* two generate_variants calls of the same count have returned; the group mixes
\* files of both, its colours are the list of neither, and two of its files
\* have the same colour
C14_Witness ==
    \E a, b \in Threads :
        /\ a # b
        /\ threads[a].pc = "done" /\ threads[a].kind = "generate_variants"
        /\ threads[b].pc = "done" /\ threads[b].kind = "generate_variants"
        /\ threads[a].num_variants = threads[b].num_variants
        /\ \E j, k \in 1..threads[a].num_variants :
               /\ j # k
               /\ DiskColor(j) = threads[a].result[j].bg_color
               /\ DiskColor(j) # threads[b].result[j].bg_color
               /\ DiskColor(k) = threads[b].result[k].bg_color
               /\ DiskColor(k) # threads[a].result[k].bg_color
               /\ DiskColor(j) = DiskColor(k)

-----------------------------------------------------------------------------
(* C15 *)

\* the step removes no directory and no file
C15_NothingRemoved ==
    /\ dirs \subseteq dirs'
    /\ \A d \in dirs : FilesIn(files, d) \subseteq FilesIn(files', d)

\* C15: a group never shrinks. No step of any operation (generate,
\* generate-variants, bulk-generate, the reads, and every step of concurrent
\* generator calls) removes a directory or a file, so the filenames a group
\* holds at a later state include those it held at any earlier state.
C15_NeverShrinks == [][C15_NothingRemoved]_vars

\* a /generate-variants request for fewer variants than the group already held
\* has been served: the group still holds more files than were requested
C15_Witness ==
    /\ resp # NoResponse
    /\ req.endpoint = "/generate-variants"
    /\ resp.status = 200
    /\ Cardinality(FilesIn(files, resp.body.user_info.initials)) > resp.body.total_variants

-----------------------------------------------------------------------------
(* C16 *)

\* the names of variants 1..k of a group
NamesUpTo(initials, k) == {VariantFilename(initials, j) : j \in 1..k}

Max(a, b) == IF a >= b THEN a ELSE b

\* what a /generate-variants request that returned n variants did to the store
C16_Frame ==
    (Serving /\ req'.endpoint = "/generate-variants" /\ resp'.status = 200) =>
        LET I == resp'.body.user_info.initials
            vs == resp'.body.variants
            n == Len(vs)
            written == {<<I, name>> : name \in NamesUpTo(I, n)}
        IN  /\ SavedNames(io') = NamesUpTo(I, n)
            /\ Len(SelectSeq(io', LAMBDA a : a.op = "save")) = n
            /\ DOMAIN files' = DOMAIN files \cup written
            /\ \A k \in 1..n :
                   files'[<<I, VariantFilename(I, k)>>] = create_image(I, k, vs[k].bg_color)
            /\ \A f \in DOMAIN files \ written : files'[f] = files[f]
            /\ \A m \in 0..MAX_VARIANTS :
                   FilesIn(files, I) = NamesUpTo(I, m) =>
                       FilesIn(files', I) = NamesUpTo(I, Max(m, n))

\* C16: generate_variants(initials, n) on a group holding variant1..m saves
\* exactly the files variant1..n, once each, with the images it lists
\* (replacing those that exist), and leaves every file numbered above n and
\* every file of every other group as it was; afterwards the group holds
\* variant1..max(m, n) (so a second run with the same n gives the same names).
C16_WritesFirstN == [][C16_Frame]_vars

\* a /generate-variants for fewer than three variants was served on a group of
\* twelve: variant 1 has the colour of the new run, variant 12 that of the old
C16_Witness ==
    /\ resp # NoResponse
    /\ req.endpoint = "/generate-variants"
    /\ resp.status = 200
    /\ resp.body.total_variants < DEFAULT_VARIANTS
    /\ LET I == resp.body.user_info.initials
       IN  /\ FilesIn(files, I) = NamesUpTo(I, MAX_VARIANTS)
           /\ files[<<I, VariantFilename(I, 1)>>].bg = resp.body.variants[1].bg_color
           /\ files[<<I, VariantFilename(I, 1)>>].bg = BACKGROUND_COLORS[2]
           /\ files[<<I, VariantFilename(I, MAX_VARIANTS)>>].bg = BACKGROUND_COLORS[12]

-----------------------------------------------------------------------------
(* C17 *)

\* whether a file name of group d reads {d}_variant{digits}.png
WellNamed(d, f) ==
    /\ Len(f) > Len(d) + Len(VariantInfix) + Len(PngSuffix)
    /\ SubSeq(f, 1, Len(d) + Len(VariantInfix)) = d \o VariantInfix
    /\ SubSeq(f, Len(f) - Len(PngSuffix) + 1, Len(f)) = PngSuffix

\* the variant number such a name carries, read back from the name
NumberIn(d, f) ==
    ParseInt(SubSeq(f, Len(d) + Len(VariantInfix) + 1, Len(f) - Len(PngSuffix)))

\* the variant numbers stored in group d
StoredNumbers(d) == {NumberIn(d, f).value : f \in FilesIn(files, d)}

\* C17: sequence numbers are dense from 1 in every reachable state. Every file
\* lies in a group directory, every stored name carries a number, no two names
\* of a group carry the same one, and the numbers of each group are exactly
\* 1..k for some k in 0..12; this holds after every request and at every
\* intermediate point of concurrent generator calls.
C17_DenseNumbers ==
    /\ \A f \in DOMAIN files : f[1] \in dirs
    /\ \A d \in dirs :
           /\ \A f \in FilesIn(files, d) : WellNamed(d, f) /\ ~NumberIn(d, f).raised
           /\ Cardinality(StoredNumbers(d)) = Cardinality(FilesIn(files, d))
           /\ \E k \in 0..MAX_VARIANTS : StoredNumbers(d) = 1..k

\* two concurrent generator calls are in the middle of their loops, at
\* different variants, and the group is partly filled
C17_Witness ==
    \E a, b \in Threads :
        /\ threads[a].pc = "save" /\ threads[b].pc = "save"
        /\ threads[a].variant < threads[b].variant
        /\ threads[b].variant <= threads[b].num_variants
        /\ StoredNumbers(SharedInitials) # {}

-----------------------------------------------------------------------------
(* C18 *)

\* the call saved files itself
Generated(log) == SavedNames(log) # {}

\* what one call of get_random_variant returned, against the store it found
C18_Descriptor ==
    \A c \in SingleCalls(req', resp') :
        Serving =>
            /\ Generated(io') <=> ~HasVariantFile(files, c.initials)
            /\ ("bg_color" \in DOMAIN c.image) <=> Generated(io')
            /\ IF Generated(io')
               THEN /\ DOMAIN c.image = {"variant", "filename", "filepath", "bg_color", "url"}
                    /\ files'[<<c.initials, c.image.filename>>] =
                           create_image(c.initials, c.image.variant, c.image.bg_color)
               ELSE /\ DOMAIN c.image = {"variant", "filename", "filepath", "url"}
                    /\ c.image.filename \in FilesIn(files, c.initials)
                    /\ c.image.variant = NumberIn(c.initials, c.image.filename).value
                    /\ c.image.filepath = JoinPath(c.initials, c.image.filename)
                    /\ c.image.url = ImageUrl(c.initials, c.image.filename)
                    /\ io' = <<>>

\* C18: the descriptor get_random_variant returns (through /generate and a
\* successful /bulk-generate entry) carries bg_color exactly when the call
\* itself generated the group, which is when it found no variant file; when it
\* picks an existing file the descriptor has only variant, filename, filepath
\* and url, the variant being the number in the chosen file's name.
C18_ColorOnlyWhenGenerated == [][C18_Descriptor]_vars

\* /generate answered with the second variant of an existing group, without a
\* colour
C18_Witness ==
    /\ resp # NoResponse
    /\ req.endpoint = "/generate"
    /\ resp.status = 200
    /\ resp.body.image.variant = 2
    /\ "bg_color" \notin DOMAIN resp.body.image

-----------------------------------------------------------------------------
(* C19 *)

\* C19: a failure in rendering or storage is never exposed to the client. A
\* handler that answers 500 gives only the generic message, and the result of
\* a /bulk-generate entry whose names passed validation and whose generation
\* failed carries the generic message too, never the text of the exception.
C19_FailuresNotExposed ==
    /\ resp.status = 500 => resp.body = [error |-> InternalError]
    /\ (req.endpoint = "/bulk-generate" /\ resp.status = 200) =>
           \A k \in 1..Len(resp.body.results) :
               LET result == resp.body.results[k]
               IN  (ReachesStore(result.user) /\ ~result.success) =>
                       result.error = InternalError

-----------------------------------------------------------------------------
(* C20 *)

\* every call made so far is a get_random_variant call
OnlyLazyCalls == \A t \in Threads : threads[t].kind \in {"none", "get_random_variant"}

\* some call has been made and every call made has returned or raised
AllFinished ==
    /\ \A t \in Threads : threads[t].pc \in {"idle", "done", "raised"}
    /\ \E t \in Threads : threads[t].pc # "idle"

\* C20: concurrent lazy generation is safe. When only get_random_variant calls
\* run, concurrently, for the same initials on a store that had no files for
\* them, then under every interleaving no call raises, every call that has
\* returned gave a variant numbered in 1..3 whose file is on disk under the
\* returned name, and once all calls have finished the group holds exactly
\* variant1..3.
C20_LazyGenerationSafe ==
    OnlyLazyCalls =>
        /\ \A t \in Threads : threads[t].pc # "raised"
        /\ \A t \in Threads :
               threads[t].pc = "done" =>
                   LET image == threads[t].result[1]
                   IN  /\ Len(threads[t].result) = 1
                       /\ image.variant \in 1..DEFAULT_VARIANTS
                       /\ image.filename \in FilesIn(files, SharedInitials)
                       /\ WellNamed(SharedInitials, image.filename)
                       /\ NumberIn(SharedInitials, image.filename).value = image.variant
        /\ AllFinished =>
               /\ Cardinality(FilesIn(files, SharedInitials)) = DEFAULT_VARIANTS
               /\ StoredNumbers(SharedInitials) = 1..DEFAULT_VARIANTS

\* all calls have returned: two of them generated the group, each having found
\* it absent or empty, and the files on disk are not all from the same call
C20_Witness ==
    /\ OnlyLazyCalls
    /\ AllFinished
    /\ \E a, b \in Threads :
           /\ a # b
           /\ threads[a].pc = "done" /\ Len(threads[a].variants) = DEFAULT_VARIANTS
           /\ threads[b].pc = "done" /\ Len(threads[b].variants) = DEFAULT_VARIANTS
           /\ \E j, k \in 1..DEFAULT_VARIANTS :
                  /\ DiskColor(j) # threads[a].variants[j].bg_color
                  /\ DiskColor(k) # threads[b].variants[k].bg_color

-----------------------------------------------------------------------------
(* C21 *)

\* what a GET on a url the service handed out is answered, now
Fetched(url) == Dispatch(Store(dirs, files, <<>>), url).resp

\* C21: every url handed out in a success response of /generate,
\* /generate-variants or /bulk-generate reads /image/{initials}/{filename} for a
\* file of the store, from the response on and in every later state, so that a
\* GET on the url, and on the matching /image-base64 path, is never answered
\* 404, whatever requests were handled in between.
C21_ReturnedUrlsServed ==
    /\ \A u \in returned \cup ReturnedUrls(req.endpoint, resp) :
           /\ \E f \in DOMAIN files : u = ImageUrl(f[1], f[2])
           /\ Fetched(u).status # 404
           /\ Fetched(Base64Url(u)).status # 404
    /\ (resp # NoResponse /\ req.endpoint = "GET") => resp.status # 404

=============================================================================
